---------------------------- MODULE Spec2Model ----------------------------
(***************************************************************************)
(* A model of package hstg (src/hstg.go): the bin codecs, the ordered      *)
(* chain of bins with its insertion cursor, the bin iterator and the       *)
(* histogram facade.                                                       *)
(*                                                                         *)
(* Pointers are addresses into the heap `bins` (Nil == 0); a `**hBin` is a *)
(* location record naming the field it points at.  A float64 rank is a     *)
(* record [nan, tenths]: either NaN, or the number tenths/10.  A PRank()   *)
(* value is the pair [num, den] standing for (num/den)*100.0; with the     *)
(* totals the bounds allow, the float64 comparison PRank() > prank agrees  *)
(* with the exact comparison num*1000 > tenths*den.  All counters stay far *)
(* below the width of Go's uint, so no addition wraps.                     *)
(***************************************************************************)
EXTENDS Integers, Sequences, FiniteSets

VARIABLES
    codec,   \* Hstg.codec (SpecCodec: the codec under test); NoCodec before construction
    bins,    \* the heap of hBin objects: bins[a] = [value, freq, next]
    l,       \* the hBinList: [length, totalFreq, head, curr]
    i,       \* the BinIter in use [open, curr, cumFreq, codec]; NoIter before Iter
    ret,     \* the most recent call and what it returned
    hist     \* history of the calls made (arguments passed, calls counted)

vars == <<codec, bins, l, i, ret, hist>>

Nil == 0

\* ------------------------------------------------------------------ bounds
MaxBinWidth == 2     \* New / newDefaultCodec are called with binWidth in 0..MaxBinWidth
MaxLogBase == 2      \* NewExp / newExpCodec are called with logBase in 0..MaxLogBase
MaxValue == 3        \* Hstg.Update is called with value in 0..MaxValue
MaxUpdates == 3      \* Hstg.Update is called at most MaxUpdates times
MaxCodecValue == 15  \* the codec under test encodes and decodes 0..MaxCodecValue
MaxKey == 2          \* hBinList.update is called with value (the key) in 0..MaxKey
MaxListUpdates == 3  \* hBinList.update is called at most MaxListUpdates times

\* hBinList.update is called with freq in Freqs
Freqs == {0, 1, 2}

\* ------------------------------------------------------------------ codecs
\* binCodec values: the two implementations of the interface.
DefaultCodec(binWidth) == [kind |-> "default", param |-> binWidth]
ExpCodec(logBase) == [kind |-> "exp", param |-> logBase]

\* A nil binCodec / a nil *Hstg.
NoCodec == [kind |-> "nil", param |-> 0]

\* newDefaultCodec: [codec, err]
newDefaultCodec(binWidth) ==
    IF binWidth = 0
    THEN [codec |-> NoCodec, err |-> TRUE]
    ELSE [codec |-> DefaultCodec(binWidth), err |-> FALSE]

\* newExpCodec rejecting base 2 as well.
newExpCodec_Strict(logBase) ==
    IF logBase <= 2
    THEN [codec |-> NoCodec, err |-> TRUE]
    ELSE [codec |-> [kind |-> "exp", param |-> logBase], err |-> FALSE]

\* newExpCodec: [codec, err]
newExpCodec(logBase) ==
    IF logBase < 2
    THEN [codec |-> NoCodec, err |-> TRUE]
    ELSE [codec |-> ExpCodec(logBase), err |-> FALSE]

\* encode rounding the quotient up instead of down.
defaultCodec_encode_RoundUp(binWidth, value) ==
    (value + binWidth - 1) \div binWidth

defaultCodec_encode(binWidth, value) == value \div binWidth

\* decode returning the upper end of the bin instead of the lower.
defaultCodec_decode_Upper(binWidth, binValue) == (binValue + 1) * binWidth

defaultCodec_decode(binWidth, binValue) == binValue * binWidth

RECURSIVE Pow(_, _)
Pow(b, k) == IF k = 0 THEN 1 ELSE b * Pow(b, k - 1)

\* The largest k with b^k <= n (n >= 1, b >= 2): floor of log_b(n).
RECURSIVE FloorLog(_, _)
FloorLog(b, n) == IF n < b THEN 0 ELSE 1 + FloorLog(b, n \div b)

IsPowerOf(b, n) == Pow(b, FloorLog(b, n)) = n

\* expCodec.encode computes uint(math.Log1p(v) / math.Log(b)) in float64.  Away
\* from an exact power the quotient is far from an integer and truncates to
\* floor(log_b(v+1)).  At v+1 = b^k the quotient is k up to rounding, and
\* truncates to k or to k-1; for base 2 the package's test table
\* (part_000:59-76) pins it to k.  The set of results the build can produce:
expCodec_encode(logBase, value) ==
    LET k == FloorLog(logBase, value + 1)
    IN  IF logBase = 2 \/ k = 0 \/ ~IsPowerOf(logBase, value + 1)
        THEN {k}
        ELSE {k - 1, k}

\* expCodec.decode: uint(math.Pow(b, k)), exact for the small powers at hand.
expCodec_decode(logBase, binValue) == Pow(logBase, binValue)

\* codec.encode(value): the set of possible results (a singleton except as above).
encode(c, value) ==
    IF c.kind = "default"
    THEN {defaultCodec_encode(c.param, value)}
    ELSE expCodec_encode(c.param, value)

\* codec.decode(binValue)
decode(c, binValue) ==
    IF c.kind = "default"
    THEN defaultCodec_decode(c.param, binValue)
    ELSE expCodec_decode(c.param, binValue)

\* ------------------------------------------------------------------ hBin, hBinList
\* &hBin{value, freq, next}
hBin(value, freq, next) == [value |-> value, freq |-> freq, next |-> next]

\* newBinList: &hBinList{}
newBinList == [length |-> 0, totalFreq |-> 0, head |-> Nil, curr |-> Nil]

\* The three kinds of **hBin that update and binFor form.
LocHead == [kind |-> "head", bin |-> Nil]          \* &l.head
LocCurr == [kind |-> "curr", bin |-> Nil]          \* &l.curr
LocNext(a) == [kind |-> "next", bin |-> a]         \* &curr.next

\* *head
Deref(s, loc) ==
    CASE loc.kind = "head" -> s.l.head
      [] loc.kind = "curr" -> s.l.curr
      [] loc.kind = "next" -> s.bins[loc.bin].next

\* *head = result
Store(s, loc, a) ==
    CASE loc.kind = "head" -> [s EXCEPT !.l.head = a]
      [] loc.kind = "curr" -> [s EXCEPT !.l.curr = a]
      [] loc.kind = "next" -> [s EXCEPT !.bins[loc.bin].next = a]

\* Splice without its *head = result.
Splice_NoStore(s, loc, value, next) ==
    [bins |-> Append(s.bins, [value |-> value, freq |-> 0, next |-> next]),
     l |-> [s.l EXCEPT !.length = @ + 1],
     result |-> Len(s.bins) + 1]

\* Splice that links the new bin to nothing, whatever followed.
Splice_DropsTail(s, loc, value, next) ==
    LET a == Len(s.bins) + 1
        alloc == [s EXCEPT !.bins = Append(@, [value |-> value, freq |-> 0,
                                               next |-> Nil])]
        linked == Store(alloc, loc, a)
    IN  [bins |-> linked.bins,
         l |-> [linked.l EXCEPT !.length = @ + 1],
         result |-> a]

\* Splice without its l.length++.
Splice_NoLength(s, loc, value, next) ==
    LET a == Len(s.bins) + 1
        alloc == [s EXCEPT !.bins = Append(@, [value |-> value, freq |-> 0,
                                               next |-> next])]
        linked == Store(alloc, loc, a)
    IN  [bins |-> linked.bins, l |-> linked.l, result |-> a]

\* result := &hBin{value, 0, next}; *head = result; l.length++; return result
Splice(s, loc, value, next) ==
    LET a == Len(s.bins) + 1
        alloc == [s EXCEPT !.bins = Append(@, hBin(value, 0, next))]
        linked == Store(alloc, loc, a)
    IN  [bins |-> linked.bins,
         l |-> [linked.l EXCEPT !.length = @ + 1],
         result |-> a]

\* The outcome r of a search, with the bins whose value the loop read.
Searched(r, seen) ==
    [bins |-> r.bins, l |-> r.l, result |-> r.result, seen |-> seen]

\* A search that links a new bin after the first bin of higher key, not
\* before it.
RECURSIVE hBinList_binFor_After(_, _, _)
hBinList_binFor_After(s, head, value) ==
    LET curr == Deref(s, head)
    IN  IF curr = Nil THEN Searched(Splice(s, head, value, Nil), <<>>)
        ELSE IF s.bins[curr].value = value
        THEN [bins |-> s.bins, l |-> s.l, result |-> curr, seen |-> <<curr>>]
        ELSE IF s.bins[curr].value < value
        THEN LET r == hBinList_binFor_After(s, LocNext(curr), value)
             IN  Searched(r, <<curr>> \o r.seen)
        ELSE Searched(Splice(s, LocNext(curr), value, s.bins[curr].next), <<curr>>)

\* hBinList.binFor(head, value) on the state s = [bins, l]: [bins, l, result],
\* and seen, the addresses of the bins the loop compared with value, in order.
RECURSIVE hBinList_binFor(_, _, _)
hBinList_binFor(s, head, value) ==
    LET curr == Deref(s, head)
    IN  IF curr = Nil
        THEN Searched(Splice(s, head, value, Nil), <<>>)
        ELSE IF s.bins[curr].value = value
        THEN [bins |-> s.bins, l |-> s.l, result |-> curr, seen |-> <<curr>>]
        ELSE IF s.bins[curr].value < value
        THEN LET r == hBinList_binFor(s, LocNext(curr), value)
             IN  Searched(r, <<curr>> \o r.seen)
        ELSE Searched(Splice(s, head, value, curr), <<curr>>)

\* A bin update that stores freq instead of adding it.
hBin_update_Set(bs, a, freq) == [bs EXCEPT ![a].freq = freq]

\* hBin.update on the bin at address a
hBin_update(bs, a, freq) == [bs EXCEPT ![a].freq = @ + freq]

NoPanic == "none"

\* An arm of update without its l.curr = bin.
UpdateFrom_KeepsCursor(s, start, value, freq) ==
    LET r == hBinList_binFor(s, start, value)
    IN  [bins |-> hBin_update(r.bins, r.result, freq),
         l |-> r.l,
         start |-> start.kind,
         seen |-> r.seen]

\* One arm of update: bin := l.binFor(start, value); l.curr = bin; bin.update(freq)
UpdateFrom(s, start, value, freq) ==
    LET r == hBinList_binFor(s, start, value)
    IN  [bins |-> hBin_update(r.bins, r.result, freq),
         l |-> [r.l EXCEPT !.curr = r.result],
         start |-> start.kind,
         seen |-> r.seen]

PanicCursorOfEmpty == "current node of an empty list is non nil"
PanicSentinel == "sentinel error: this else should not be reached"

\* update ended by panic(msg): nothing was searched or written.
Panicked(bs, lst, msg) ==
    [bins |-> bs, l |-> lst, panic |-> msg, start |-> "none", seen |-> <<>>]

\* The end of update after the arm t: l.totalFreq += freq.
Updated(t, freq) ==
    [bins |-> t.bins,
     l |-> [t.l EXCEPT !.totalFreq = @ + freq],
     panic |-> NoPanic,
     start |-> t.start,
     seen |-> t.seen]

\* An update that restarts every search from the head of the chain.
hBinList_update_FromHead(bs, lst, value, freq) ==
    LET s == [bins |-> bs, l |-> lst]
    IN  IF lst.head = Nil /\ lst.curr # Nil THEN Panicked(bs, lst, PanicCursorOfEmpty)
        ELSE Updated(UpdateFrom(s, LocHead, value, freq), freq)

\* hBinList.update(value, freq) on bins bs and list lst: [bins, l, panic], with
\* the field the search started at (start: "head" for &l.head, "curr" for
\* &l.curr) and the bins it compared (seen).
hBinList_update(bs, lst, value, freq) ==
    LET s == [bins |-> bs, l |-> lst]
    IN  IF lst.head = Nil /\ lst.curr # Nil
        THEN Panicked(bs, lst, PanicCursorOfEmpty)
        ELSE IF lst.curr = Nil
        THEN Updated(UpdateFrom(s, LocHead, value, freq), freq)
        ELSE IF value < bs[lst.curr].value
        THEN Updated(UpdateFrom(s, LocHead, value, freq), freq)
        ELSE IF value >= bs[lst.curr].value
        THEN Updated(UpdateFrom(s, LocCurr, value, freq), freq)
        ELSE Panicked(bs, lst, PanicSentinel)

\* hBinList.first
hBinList_first(lst) == lst.head

\* hBinList.last
RECURSIVE LastFrom(_, _)
LastFrom(bs, bin) ==
    IF bin # Nil /\ bs[bin].next # Nil THEN LastFrom(bs, bs[bin].next) ELSE bin

\* last returning the cursor instead of scanning to the tail.
hBinList_last_Cursor(bs, lst) == lst.curr

hBinList_last(bs, lst) == LastFrom(bs, lst.head)

\* ------------------------------------------------------------------ BinIter
NilDeref == "invalid memory address or nil pointer dereference"

NoIter == [open |-> FALSE, curr |-> Nil, cumFreq |-> 0, codec |-> NoCodec]

\* newIter: &BinIter{binList, binList.head, 0, codec}
newIter(lst, c) == [open |-> TRUE, curr |-> lst.head, cumFreq |-> 0, codec |-> c]

BinIter_bin(it) == it.curr

BinIter_Done(it) == it.curr = Nil

\* Next counting the bin passed instead of adding its frequency.
BinIter_Next_CountsBins(bs, it) ==
    IF it.curr = Nil
    THEN [i |-> it, panic |-> NilDeref]
    ELSE [i |-> [it EXCEPT !.cumFreq = @ + 1, !.curr = bs[it.curr].next],
          panic |-> NoPanic]

\* BinIter.Next: [i, panic]
BinIter_Next(bs, it) ==
    IF it.curr = Nil
    THEN [i |-> it, panic |-> NilDeref]
    ELSE [i |-> [it EXCEPT !.cumFreq = @ + bs[it.curr].freq,
                           !.curr = bs[it.curr].next],
          panic |-> NoPanic]

\* Freq returning the zero value when the iteration is done.
BinIter_Freq_Default(bs, it) ==
    IF it.curr = Nil
    THEN [value |-> 0, panic |-> NoPanic]
    ELSE [value |-> bs[it.curr].freq, panic |-> NoPanic]

\* BinIter.Freq: [value, panic]
BinIter_Freq(bs, it) ==
    IF it.curr = Nil
    THEN [value |-> 0, panic |-> NilDeref]
    ELSE [value |-> bs[it.curr].freq, panic |-> NoPanic]

\* BinIter.PRank: the float64 (num/den)*100.0; 0/0 is NaN, and no pointer but
\* i.binList is dereferenced.
BinIter_PRank(lst, it) == [num |-> it.cumFreq, den |-> lst.totalFreq]

\* BinIter.Percentile: [value, panic]
BinIter_Percentile(bs, it) ==
    IF it.curr = Nil
    THEN [value |-> 0, panic |-> NilDeref]
    ELSE [value |-> decode(it.codec, bs[it.curr].value), panic |-> NoPanic]

\* ------------------------------------------------------------------ float64 ranks
Rank(tenths) == [nan |-> FALSE, tenths |-> tenths]
NaN == [nan |-> TRUE, tenths |-> 0]

\* prank < 0.0, prank > 100.0, prank == x: every comparison with NaN is false.
RankLt(r, tenths) == ~r.nan /\ r.tenths < tenths
RankGt(r, tenths) == ~r.nan /\ r.tenths > tenths
RankEq(r, tenths) == ~r.nan /\ r.tenths = tenths

\* The comparison with >= for >.
PRankGt_Ge(p, r) ==
    IF r.nan \/ (p.den = 0 /\ p.num = 0)
    THEN FALSE
    ELSE IF p.den = 0
    THEN TRUE
    ELSE p.num * 1000 >= r.tenths * p.den

\* i.PRank() > prank
PRankGt(p, r) ==
    IF r.nan \/ (p.den = 0 /\ p.num = 0)
    THEN FALSE
    ELSE IF p.den = 0
    THEN TRUE
    ELSE p.num * 1000 > r.tenths * p.den

\* ------------------------------------------------------------------ Hstg
\* The loop of Hstg.Percentile: for !i.Done() { if i.PRank() > prank { break };
\* bin = i.bin(); i.Next() }; the bin it ends with.
RECURSIVE PercentileScan(_, _, _, _, _)
PercentileScan(bs, lst, it, bin, prank) ==
    IF BinIter_Done(it)
    THEN bin
    ELSE IF PRankGt(BinIter_PRank(lst, it), prank)
    THEN bin
    ELSE PercentileScan(bs, lst, BinIter_Next(bs, it).i, BinIter_bin(it), prank)

\* Percentile testing for the empty histogram before the range of prank.
Hstg_Percentile_EmptyFirst(bs, lst, c, prank) ==
    IF lst.length = 0
    THEN [value |-> decode(c, 0), err |-> FALSE, panic |-> NoPanic]
    ELSE IF RankLt(prank, 0) \/ RankGt(prank, 1000)
    THEN [value |-> 0, err |-> TRUE, panic |-> NoPanic]
    ELSE LET it == newIter(lst, c)
             bin == IF RankEq(prank, 0) THEN hBinList_first(lst)
                    ELSE IF RankEq(prank, 1000) THEN hBinList_last(bs, lst)
                    ELSE PercentileScan(bs, lst, it, BinIter_bin(it), prank)
         IN  [value |-> decode(c, bs[bin].value), err |-> FALSE,
              panic |-> NoPanic]

\* Hstg.Percentile(prank): [value, err, panic]
Hstg_Percentile(bs, lst, c, prank) ==
    IF RankLt(prank, 0) \/ RankGt(prank, 1000)
    THEN [value |-> 0, err |-> TRUE, panic |-> NoPanic]
    ELSE IF lst.length = 0
    THEN [value |-> decode(c, 0), err |-> FALSE, panic |-> NoPanic]
    ELSE LET it == newIter(lst, c)
             bin == IF RankEq(prank, 0) THEN hBinList_first(lst)
                    ELSE IF RankEq(prank, 1000) THEN hBinList_last(bs, lst)
                    ELSE PercentileScan(bs, lst, it, BinIter_bin(it), prank)
         IN  IF bin = Nil
             THEN [value |-> 0, err |-> FALSE, panic |-> NilDeref]
             ELSE [value |-> decode(c, bs[bin].value), err |-> FALSE,
                   panic |-> NoPanic]

\* Hstg.BinCount
Hstg_BinCount(lst) == lst.length

\* Hstg.TotalFreq
Hstg_TotalFreq(lst) == lst.totalFreq

\* ------------------------------------------------------------------ calls
\* The float64 ranks Percentile is called with: -0.1, 0, 25, 50, 66.7, 100,
\* 100.1 and NaN.
Ranks == {Rank(t) : t \in {-1, 0, 250, 500, 667, 1000, 1001}} \cup {NaN}

\* What a call returned: op and arg (or rank) name the call; value (over den,
\* for PRank) and err are its results; panic is the run-time panic it ended in.
\* For an update: the field its search started at (start), the key of the
\* cursor bin before the call (from, -1 for no cursor) and the keys of the
\* bins the search compared (seen).
Ret(op, arg) ==
    [op |-> op, arg |-> arg, rank |-> NaN, value |-> 0, den |-> 0,
     err |-> FALSE, panic |-> NoPanic,
     start |-> "none", from |-> -1, seen |-> {}]

\* History: sum and keys of the (value, freq) passed to hBinList.update, the
\* values fed to Hstg.Update, the number of update calls, and, for the iterator
\* in use, the keys of the bins it was positioned on, its Next calls, and
\* whether an update happened since it was made (stale).  Of the keys passed
\* to update: the latest (last), whether they came in non-decreasing order
\* (mono), and the sum of the freq passed with each (map).  seq is the
\* sequence of the <<value, freq>> passed to update where a run records it.
NoHist ==
    [sum |-> 0, keys |-> {}, fed |-> {}, calls |-> 0,
     visited |-> <<>>, nexts |-> 0, stale |-> FALSE,
     enc |-> [value |-> 0, bin |-> 0, set |-> FALSE],
     last |-> 0, mono |-> TRUE, map |-> [k \in {} |-> 0], seq |-> <<>>]

Init ==
    /\ codec = NoCodec
    /\ bins = <<>>
    /\ l = newBinList
    /\ i = NoIter
    /\ ret = Ret("none", 0)
    /\ hist = NoHist

\* A panic ends the program.
Running == ret.panic = NoPanic

\* History of one hBinList.update(value, freq) call.
HistUpdate(value, freq) ==
    [hist EXCEPT !.sum = @ + freq, !.keys = @ \cup {value}, !.calls = @ + 1,
                 !.stale = i.open, !.visited = <<>>, !.nexts = 0,
                 !.last = value,
                 !.mono = @ /\ (hist.calls = 0 \/ hist.last <= value),
                 !.map = [k \in DOMAIN @ \cup {value} |->
                            (IF k \in DOMAIN @ THEN @[k] ELSE 0)
                            + (IF k = value THEN freq ELSE 0)]]

\* The key of the cursor bin, -1 for no cursor.
CursorKey(bs, lst) == IF lst.curr = Nil THEN -1 ELSE bs[lst.curr].value

\* What the update call op(arg) returned, r being hBinList.update's outcome.
RetUpdate(op, arg, r) ==
    [Ret(op, arg) EXCEPT !.panic = r.panic,
                         !.start = r.start,
                         !.from = CursorKey(bins, l),
                         !.seen = {r.bins[r.seen[n]].value : n \in 1..Len(r.seen)}]

\* The key of the bin the iterator is positioned on, if any.
Position(bs, it) == IF it.curr = Nil THEN <<>> ELSE <<bs[it.curr].value>>

\* h, err := New(binWidth)
New(binWidth) ==
    /\ Running /\ codec = NoCodec
    /\ LET r == newDefaultCodec(binWidth)
       IN  /\ codec' = r.codec
           /\ l' = newBinList
           /\ ret' = [Ret("New", binWidth) EXCEPT !.err = r.err]
    /\ UNCHANGED <<bins, i, hist>>

\* h, err := NewExp(logBase)
NewExp(logBase) ==
    /\ Running /\ codec = NoCodec
    /\ LET r == newExpCodec(logBase)
       IN  /\ codec' = r.codec
           /\ l' = newBinList
           /\ ret' = [Ret("NewExp", logBase) EXCEPT !.err = r.err]
    /\ UNCHANGED <<bins, i, hist>>

\* h.Update(value)
Update(value) ==
    /\ Running /\ codec # NoCodec
    /\ hist.calls < MaxUpdates
    /\ \E binValue \in encode(codec, value) :
         LET r == hBinList_update(bins, l, binValue, 1)
         IN  /\ bins' = r.bins
             /\ l' = r.l
             /\ ret' = RetUpdate("Update", value, r)
             /\ hist' = [HistUpdate(binValue, 1) EXCEPT !.fed = @ \cup {value}]
    /\ UNCHANGED <<codec, i>>

\* A Percentile that leaves the insertion cursor on the first bin.
Percentile_MovesCursor(prank) ==
    /\ Running /\ codec # NoCodec
    /\ LET r == Hstg_Percentile(bins, l, codec, prank)
       IN  ret' = [Ret("Percentile", 0) EXCEPT !.rank = prank, !.value = r.value,
                                               !.err = r.err, !.panic = r.panic]
    /\ l' = [l EXCEPT !.curr = l.head]
    /\ UNCHANGED <<codec, bins, i, hist>>

\* v, err := h.Percentile(prank)
Percentile(prank) ==
    /\ Running /\ codec # NoCodec
    /\ LET r == Hstg_Percentile(bins, l, codec, prank)
       IN  ret' = [Ret("Percentile", 0) EXCEPT !.rank = prank, !.value = r.value,
                                               !.err = r.err, !.panic = r.panic]
    /\ UNCHANGED <<codec, bins, l, i, hist>>

\* h.BinCount()
BinCount ==
    /\ Running /\ codec # NoCodec
    /\ ret' = [Ret("BinCount", 0) EXCEPT !.value = Hstg_BinCount(l)]
    /\ UNCHANGED <<codec, bins, l, i, hist>>

\* h.TotalFreq()
TotalFreq ==
    /\ Running /\ codec # NoCodec
    /\ ret' = [Ret("TotalFreq", 0) EXCEPT !.value = Hstg_TotalFreq(l)]
    /\ UNCHANGED <<codec, bins, l, i, hist>>

\* i := h.Iter()
Iter ==
    /\ Running /\ codec # NoCodec
    /\ i' = newIter(l, codec)
    /\ ret' = Ret("Iter", 0)
    /\ hist' = [hist EXCEPT !.visited = Position(bins, i'), !.nexts = 0,
                            !.stale = FALSE]
    /\ UNCHANGED <<codec, bins, l>>

\* i.Done()
Done ==
    /\ Running /\ i.open
    /\ ret' = [Ret("Done", 0) EXCEPT !.value = IF BinIter_Done(i) THEN 1 ELSE 0]
    /\ UNCHANGED <<codec, bins, l, i, hist>>

\* i.Next()
Next ==
    /\ Running /\ i.open
    /\ LET r == BinIter_Next(bins, i)
       IN  /\ i' = r.i
           /\ ret' = [Ret("Next", 0) EXCEPT !.panic = r.panic]
           /\ hist' = IF hist.stale \/ r.panic # NoPanic
                      THEN hist
                      ELSE [hist EXCEPT !.visited = @ \o Position(bins, r.i),
                                        !.nexts = @ + 1]
    /\ UNCHANGED <<codec, bins, l>>

\* i.Freq()
Freq ==
    /\ Running /\ i.open
    /\ LET r == BinIter_Freq(bins, i)
       IN  ret' = [Ret("Freq", 0) EXCEPT !.value = r.value, !.panic = r.panic]
    /\ UNCHANGED <<codec, bins, l, i, hist>>

\* i.PRank()
PRank ==
    /\ Running /\ i.open
    /\ LET r == BinIter_PRank(l, i)
       IN  ret' = [Ret("PRank", 0) EXCEPT !.value = r.num, !.den = r.den]
    /\ UNCHANGED <<codec, bins, l, i, hist>>

\* i.Percentile()
IterPercentile ==
    /\ Running /\ i.open
    /\ LET r == BinIter_Percentile(bins, i)
       IN  ret' = [Ret("IterPercentile", 0) EXCEPT !.value = r.value,
                                                   !.panic = r.panic]
    /\ UNCHANGED <<codec, bins, l, i, hist>>

\* The histogram's public calls.
Step ==
    \/ \E binWidth \in 0..MaxBinWidth : New(binWidth)
    \/ \E logBase \in 0..MaxLogBase : NewExp(logBase)
    \/ \E value \in 0..MaxValue : Update(value)
    \/ \E prank \in Ranks : Percentile(prank)
    \/ BinCount
    \/ TotalFreq
    \/ Iter
    \/ Done
    \/ Next
    \/ Freq
    \/ PRank
    \/ IterPercentile

Spec == Init /\ [][Step]_vars

\* ------------------------------------------------------------------ hBinList calls
\* list.update(value, freq), on the list made by newBinList()
ListUpdate(value, freq) ==
    /\ Running
    /\ hist.calls < MaxListUpdates
    /\ LET r == hBinList_update(bins, l, value, freq)
       IN  /\ bins' = r.bins
           /\ l' = r.l
           /\ ret' = RetUpdate("update", value, r)
           /\ hist' = HistUpdate(value, freq)
    /\ UNCHANGED <<codec, i>>

\* codec, _ := newDefaultCodec(1); i := list.iter(codec), as the tests make it
ListIter ==
    /\ Running
    /\ i' = newIter(l, newDefaultCodec(1).codec)
    /\ ret' = Ret("iter", 0)
    /\ hist' = [hist EXCEPT !.visited = Position(bins, i'), !.nexts = 0,
                            !.stale = FALSE]
    /\ UNCHANGED <<codec, bins, l>>

\* The calls made on a bare hBinList and its iterator.
StepList ==
    \/ \E value \in 0..MaxKey, freq \in Freqs : ListUpdate(value, freq)
    \/ ListIter
    \/ Done
    \/ Next
    \/ Freq
    \/ PRank
    \/ IterPercentile

SpecList == Init /\ [][StepList]_vars

\* ------------------------------------------------------------------ codec calls
\* codec, err := newDefaultCodec(binWidth)
NewDefaultCodec(binWidth) ==
    /\ codec = NoCodec
    /\ LET r == newDefaultCodec(binWidth)
       IN  /\ codec' = r.codec
           /\ ret' = [Ret("newDefaultCodec", binWidth) EXCEPT !.err = r.err]
    /\ UNCHANGED <<bins, l, i, hist>>

\* codec, err := newExpCodec(logBase)
NewExpCodec(logBase) ==
    /\ codec = NoCodec
    /\ LET r == newExpCodec(logBase)
       IN  /\ codec' = r.codec
           /\ ret' = [Ret("newExpCodec", logBase) EXCEPT !.err = r.err]
    /\ UNCHANGED <<bins, l, i, hist>>

\* codec.encode(value); the history keeps the value and its bin.
Encode(value) ==
    /\ codec # NoCodec
    /\ \E binValue \in encode(codec, value) :
         /\ ret' = [Ret("encode", value) EXCEPT !.value = binValue]
         /\ hist' = [hist EXCEPT !.enc = [value |-> value, bin |-> binValue,
                                          set |-> TRUE]]
    /\ UNCHANGED <<codec, bins, l, i>>

\* codec.decode(binValue)
Decode(binValue) ==
    /\ codec # NoCodec
    /\ ret' = [Ret("decode", binValue) EXCEPT !.value = decode(codec, binValue)]
    /\ UNCHANGED <<codec, bins, l, i, hist>>

\* The calls made on a codec.
StepCodec ==
    \/ \E binWidth \in 0..MaxBinWidth : NewDefaultCodec(binWidth)
    \/ \E logBase \in 0..MaxLogBase : NewExpCodec(logBase)
    \/ \E value \in 0..MaxCodecValue : Encode(value)
    \/ \E binValue \in 0..MaxCodecValue : Decode(binValue)

SpecCodec == Init /\ [][StepCodec]_vars

\* ------------------------------------------------------------------ update sequences
\* list.update(value, freq) on the list made by newBinList(), the calls so far
\* kept in order.
ListUpdateSeq(value, freq) ==
    /\ Running
    /\ hist.calls < MaxListUpdates
    /\ LET r == hBinList_update(bins, l, value, freq)
       IN  /\ bins' = r.bins
           /\ l' = r.l
           /\ ret' = RetUpdate("update", value, r)
           /\ hist' = [HistUpdate(value, freq) EXCEPT !.seq = Append(@, <<value, freq>>)]
    /\ UNCHANGED <<codec, i>>

\* Sequences of update calls on one list.
StepSeq == \E value \in 0..MaxKey, freq \in Freqs : ListUpdateSeq(value, freq)

SpecSeq == Init /\ [][StepSeq]_vars

\* ------------------------------------------------------------------ properties
\* The chain of bins from the head, as addresses and as keys.
RECURSIVE ChainFrom(_, _, _)
ChainFrom(bs, a, fuel) ==
    IF a = Nil \/ fuel = 0
    THEN <<>>
    ELSE <<a>> \o ChainFrom(bs, bs[a].next, fuel - 1)

Chain == ChainFrom(bins, l.head, Len(bins) + 1)

ChainKeys == [n \in 1..Len(Chain) |-> bins[Chain[n]].value]

ChainKeySet == {ChainKeys[n] : n \in 1..Len(Chain)}

\* The frequency recorded in the chain's bins of key below k.
RECURSIVE FreqBelowFrom(_, _)
FreqBelowFrom(n, k) ==
    IF n = 0
    THEN 0
    ELSE FreqBelowFrom(n - 1, k)
         + (IF ChainKeys[n] < k THEN bins[Chain[n]].freq ELSE 0)

FreqBelow(k) == FreqBelowFrom(Len(Chain), k)

\* The tests' way of building a list: the updates in `calls` (each <<value,
\* freq>>), in order, on the list of newBinList(); and n Next calls on an
\* iterator.
RECURSIVE UpdateAll(_, _)
UpdateAll(s, calls) ==
    IF calls = <<>>
    THEN s
    ELSE LET r == hBinList_update(s.bins, s.l, Head(calls)[1], Head(calls)[2])
         IN  UpdateAll([bins |-> r.bins, l |-> r.l], Tail(calls))

EmptyList == [bins |-> <<>>, l |-> newBinList]

\* h, _ := New(binWidth); h.Update(v) for each v of values
Fed(binWidth, values) ==
    UpdateAll(EmptyList,
              [n \in 1..Len(values) |->
                  <<CHOOSE k \in encode(newDefaultCodec(binWidth).codec, values[n]) : TRUE,
                    1>>])

\* TestItIteratesOverBins: list.update(i, i*i) for i = 1..5
SquaresList == UpdateAll(EmptyList, [k \in 1..5 |-> <<k, k * k>>])

RECURSIVE NextTimes(_, _, _)
NextTimes(bs, it, n) ==
    IF n = 0 THEN it ELSE NextTimes(bs, BinIter_Next(bs, it).i, n - 1)

SetMax(S) == CHOOSE x \in S : \A y \in S : y <= x
SetMin(S) == CHOOSE x \in S : \A y \in S : x <= y

\* C1: after any sequence of update(key, f) calls on an empty hBinList,
\* totalFreq is the sum of the f passed and length is the number of distinct
\* keys passed, whatever the order of the keys.
C1_TotalsMatchCalls ==
    /\ l.totalFreq = hist.sum
    /\ l.length = Cardinality(hist.keys)

\* C1 witness: three updates, one key repeated, the last below an earlier one
\* (the cursor is not the newest bin and the head is not the oldest).
C1_Witness ==
    /\ ret.op = "update"
    /\ hist.calls = 3
    /\ Cardinality(hist.keys) = 2
    /\ hist.sum = 4
    /\ l.head = 2
    /\ l.curr = 1

\* The example of C2: width 2 fed 0,1,2,3,4 has BinCount() = 3, TotalFreq() = 5.
C2_Example ==
    /\ Hstg_BinCount(Fed(2, <<0, 1, 2, 3, 4>>).l) = 3
    /\ Hstg_TotalFreq(Fed(2, <<0, 1, 2, 3, 4>>).l) = 5

\* C2: for a histogram made by New(binWidth), TotalFreq() is the number of
\* Update calls made and BinCount() is the number of distinct value / binWidth
\* among the values fed.
C2_CountsMatchFeed ==
    /\ codec.kind = "default" =>
           LET fedBins == {v \div codec.param : v \in hist.fed}
           IN  /\ Hstg_TotalFreq(l) = hist.calls
               /\ Hstg_BinCount(l) = Cardinality(fedBins)
               /\ ret.op = "TotalFreq" => ret.value = hist.calls
               /\ ret.op = "BinCount" => ret.value = Cardinality(fedBins)
    /\ C2_Example

\* C2 witness: width 2 fed 1, 2 and 3 holds the two bins 0 and 1.
C2_Witness ==
    /\ codec = DefaultCodec(2)
    /\ hist.fed = {1, 2, 3}
    /\ hist.calls = 3
    /\ ret.op = "BinCount"
    /\ ret.value = 2

\* The ranks strictly between 0 and 100.
Inner(r) == RankGt(r, 0) /\ RankLt(r, 1000)

\* The keys of the bins whose share of totalFreq in lower-key bins is <= r.
KeysAtOrBelow(r) ==
    {k \in ChainKeySet : FreqBelow(k) * 1000 <= r.tenths * l.totalFreq}

\* C3: on a non-empty histogram and 0 < rank < 100, Percentile(rank) returns
\* decode(key) of the highest-key bin whose cumulative frequency of lower-key
\* bins, as a percentage of totalFreq, is at most rank.
C3_PercentileIsHighestBinWithinRank ==
    (ret.op = "Percentile" /\ l.length > 0 /\ Inner(ret.rank)) =>
        /\ ~ret.err
        /\ ret.panic = NoPanic
        /\ ret.value = decode(codec, SetMax(KeysAtOrBelow(ret.rank)))

\* C3 witness: three bins of frequency 1 each and rank 50: the middle bin, which
\* is neither the first candidate nor the last bin.
C3_Witness ==
    /\ ret.op = "Percentile"
    /\ ret.rank = Rank(500)
    /\ l.length = 3
    /\ l.totalFreq = 3
    /\ ret.value = decode(codec, ChainKeys[2])
    /\ ChainKeys[2] # ChainKeys[1]

\* The example of C4: width 1 fed 0,1,2,3,4 has Percentile(0) = 0 and
\* Percentile(100) = 4.
C4_Example ==
    LET h == Fed(1, <<0, 1, 2, 3, 4>>)
        c == newDefaultCodec(1).codec
    IN  /\ Hstg_Percentile(h.bins, h.l, c, Rank(0)).value = 0
        /\ Hstg_Percentile(h.bins, h.l, c, Rank(1000)).value = 4

\* C4: on a non-empty histogram, whatever the order of the updates,
\* Percentile(0) is the decoded lowest key ever passed to the list and
\* Percentile(100) the decoded highest.
C4_EndpointsAreExtremeBins ==
    /\ (ret.op = "Percentile" /\ l.length > 0) =>
           /\ RankEq(ret.rank, 0) =>
                  ~ret.err /\ ret.value = decode(codec, SetMin(hist.keys))
           /\ RankEq(ret.rank, 1000) =>
                  ~ret.err /\ ret.value = decode(codec, SetMax(hist.keys))
    /\ C4_Example

\* C4 witness: Percentile(100) on three bins created out of order: the highest
\* key is in the oldest bin, the cursor is elsewhere.
C4_Witness ==
    /\ ret.op = "Percentile"
    /\ RankEq(ret.rank, 1000)
    /\ l.length = 3
    /\ bins[1].next = Nil
    /\ l.curr # 1
    /\ ret.value = decode(codec, bins[1].value)

\* The ranks in [0, 100].
Valid(r) == ~r.nan /\ r.tenths >= 0 /\ r.tenths <= 1000

\* C5: on a histogram that holds no bins, Percentile(rank) succeeds for every
\* rank in [0, 100] and returns decode(0), which is 0, for the histograms of
\* New and of NewExp alike.
C5_EmptyPercentileIsZero ==
    (ret.op = "Percentile" /\ l.length = 0 /\ Valid(ret.rank)) =>
        /\ ~ret.err
        /\ ret.value = decode(codec, 0)
        /\ ret.value = 0

C7_ConstructionFailsIffInvalid ==
    /\ ret.op = "New" =>
           /\ ret.err <=> ret.arg = 0
           /\ ret.err => codec = NoCodec
           /\ ~ret.err => /\ codec = DefaultCodec(ret.arg)
                          /\ Hstg_BinCount(l) = 0
                          /\ Hstg_TotalFreq(l) = 0
    /\ ret.op = "NewExp" =>
           /\ ret.err <=> ret.arg < 2
           /\ ret.err => codec = NoCodec
           /\ ~ret.err => /\ codec = ExpCodec(ret.arg)
                          /\ Hstg_BinCount(l) = 0
                          /\ Hstg_TotalFreq(l) = 0

\* C7 witness: NewExp(2) succeeded.
C7_Witness ==
    /\ ret.op = "NewExp"
    /\ ret.arg = 2
    /\ ~ret.err
    /\ codec = ExpCodec(2)

\* The table of TestItEncodesAndDecodesValuesWithAExpEncoder: for value v
\* (index v + 1) the bin and the representative.
ExpTableBin == <<0, 1, 1, 2, 2, 2, 2, 3, 3, 3, 3, 3, 3, 3, 3, 4>>
ExpTableRep == <<0, 1, 1, 3, 3, 3, 3, 7, 7, 7, 7, 7, 7, 7, 7, 15>>

\* A decode of the bin that the latest encode returned.
RoundTrip == ret.op = "decode" /\ hist.enc.set /\ ret.arg = hist.enc.bin

\* C8: for the logarithmic codec of base 2 and every v in 0..15, encode(v) is
\* the listed bin and decode(encode(v)) the listed representative, the lowest
\* value of the bin.
C8_Base2Table ==
    codec = ExpCodec(2) =>
        /\ (ret.op = "encode" /\ ret.arg <= 15) =>
               ret.value = ExpTableBin[ret.arg + 1]
        /\ (RoundTrip /\ hist.enc.value <= 15) =>
               ret.value = ExpTableRep[hist.enc.value + 1]

\* C9: for the linear codec of any binWidth > 0 and any value v,
\* decode(encode(v)) <= v < decode(encode(v)) + binWidth.
C9_LinearBracket ==
    (codec.kind = "default" /\ RoundTrip) =>
        /\ ret.value <= hist.enc.value
        /\ hist.enc.value < ret.value + codec.param

\* C9 witness: width 2 encodes 3 to bin 1 and decodes bin 1 to 2.
C9_Witness ==
    /\ codec = DefaultCodec(2)
    /\ RoundTrip
    /\ hist.enc.value = 3
    /\ ret.value = 2

\* The example of C10: keys 1..5 with frequencies 1,4,9,16,25 are passed with
\* cumFreq 0,1,5,14,30, and Done() is true after the fifth Next.
C10_Example ==
    LET t == SquaresList
        it(n) == NextTimes(t.bins, newIter(t.l, newDefaultCodec(1).codec), n)
    IN  /\ \A n \in 0..4 :
               /\ it(n).cumFreq = <<0, 1, 5, 14, 30>>[n + 1]
               /\ t.bins[it(n).curr].value = n + 1
               /\ ~BinIter_Done(it(n))
        /\ BinIter_Done(it(5))
        /\ it(5).cumFreq = t.l.totalFreq

\* C10: during an iteration with no intervening update, the iterator's
\* cumFreq is the sum of the frequencies of the bins of key below the current
\* bin's; the bins are visited in ascending key order, each once; Done() is
\* true exactly when Next has been called once per bin, and then cumFreq is
\* totalFreq.
C10_IterationAccumulates ==
    /\ (i.open /\ ~hist.stale /\ ret.panic = NoPanic) =>
           /\ ~BinIter_Done(i) => i.cumFreq = FreqBelow(bins[i.curr].value)
           /\ Len(hist.visited) <= Len(ChainKeys)
           /\ hist.visited = SubSeq(ChainKeys, 1, Len(hist.visited))
           /\ \A m, n \in 1..Len(hist.visited) :
                  m < n => hist.visited[m] < hist.visited[n]
           /\ Len(hist.visited) = hist.nexts + (IF BinIter_Done(i) THEN 0 ELSE 1)
           /\ BinIter_Done(i) <=> hist.nexts = l.length
           /\ BinIter_Done(i) => i.cumFreq = l.totalFreq
    /\ C10_Example

\* C10 witness: three bins iterated to the end, after updates out of order.
C10_Witness ==
    /\ i.open /\ ~hist.stale
    /\ BinIter_Done(i)
    /\ ret.op = "Next"
    /\ ret.panic = NoPanic
    /\ hist.nexts = 3
    /\ l.head # 1
    /\ i.cumFreq = 5

\* The iterator's accessors, by the op their call leaves in ret.
Accessors == {"Freq", "IterPercentile", "PRank", "Next"}

\* C11 as claimed: a call of Freq, Percentile, PRank or Next made while
\* Done() is true panics instead of returning a value.
C11_AccessorsPanicWhenDone ==
    [][(i.open /\ BinIter_Done(i) /\ ret'.op \in Accessors)
           => ret'.panic # NoPanic]_vars

\* C11 amended: a call of Freq, Percentile or Next made while Done() is true
\* panics on the nil current bin and leaves the iterator as it was; PRank does
\* not panic there: it returns cumFreq / totalFreq * 100 like anywhere else.
C11_AccessorsButPRankPanicWhenDone ==
    [][(i.open /\ BinIter_Done(i)) =>
          /\ ret'.op \in Accessors \ {"PRank"} =>
                 ret'.panic = NilDeref /\ i' = i
          /\ ret'.op = "PRank" =>
                 /\ ret'.panic = NoPanic
                 /\ ret'.value = i.cumFreq
                 /\ ret'.den = l.totalFreq]_vars

\* C11 witness: Next called after the last of two bins was passed.
C11_Witness ==
    /\ ret.op = "Next"
    /\ ret.panic = NilDeref
    /\ BinIter_Done(i)
    /\ l.length = 2
    /\ hist.nexts = 2

\* C12: in a sequence of update calls on an empty hBinList whose keys are
\* non-decreasing, only the first call searches from the head; every later
\* call searches from the cursor bin, and compares no bin of key below the
\* cursor's.
C12_MonotoneKeysResumeFromCursor ==
    (ret.op = "update" /\ hist.mono) =>
        /\ hist.calls = 1 => ret.start = "head" /\ ret.from = -1
        /\ hist.calls > 1 => ret.start = "curr"
        /\ \A k \in ret.seen : k >= ret.from

\* C12 witness: the third of three non-decreasing keys, found two bins past
\* the cursor's.
C12_Witness ==
    /\ ret.op = "update"
    /\ hist.mono
    /\ hist.calls = 3
    /\ l.length = 2
    /\ ret.start = "curr"
    /\ ret.from = 0
    /\ ret.arg = 2
    /\ ret.seen = {0}

\* C13: in every reachable state the chain from the head holds every bin
\* counted by length, its keys are strictly ascending (so no key is there
\* twice), and the cursor is nil or a bin of the chain.
C13_ChainAscendingCursorInChain ==
    /\ Len(Chain) = l.length
    /\ \A n \in 1..Len(Chain) - 1 : ChainKeys[n] < ChainKeys[n + 1]
    /\ l.curr = Nil \/ \E n \in 1..Len(Chain) : Chain[n] = l.curr

\* C13 witness: a bin linked between two others by a search that started at
\* the cursor (keys 2, 0, 1).
C13_Witness ==
    /\ ret.op = "update"
    /\ ret.start = "curr"
    /\ l.length = 3
    /\ Chain = <<2, 3, 1>>
    /\ ChainKeys = <<0, 1, 2>>
    /\ l.curr = 3

\* The map from key to frequency that the chain stands for.
ChainMap ==
    [k \in ChainKeySet |->
        bins[CHOOSE a \in {Chain[n] : n \in 1..Len(Chain)} : bins[a].value = k].freq]

\* C14: the list refines a map from key to frequency.  In every state the
\* chain has one bin per key ever passed to update, of frequency the sum of
\* the freq passed with that key; and an update with a key already in the
\* chain allocates and links no bin, leaves the head, the length and every
\* bin's key and link as they were, adds freq to totalFreq and to the
\* frequency of the bin of that key, and leaves every other bin's frequency
\* alone.
C14_RefinesMap ==
    /\ [](/\ ChainMap = hist.map
          /\ l.length = Cardinality(DOMAIN hist.map)
          /\ Len(Chain) = l.length)
    /\ [][(ret'.op = "update" /\ hist'.calls # hist.calls /\ ret'.arg \in ChainKeySet) =>
            /\ Len(bins') = Len(bins)
            /\ l'.head = l.head
            /\ l'.length = l.length
            /\ l'.totalFreq = l.totalFreq + (hist'.sum - hist.sum)
            /\ \A a \in 1..Len(bins) :
                 /\ bins'[a].value = bins[a].value
                 /\ bins'[a].next = bins[a].next
                 /\ bins'[a].freq = bins[a].freq
                      + (IF bins[a].value = ret'.arg THEN hist'.sum - hist.sum ELSE 0)]_vars

\* C14 witness: a second update of a key, of another freq, with another bin
\* in the chain and the cursor away from the key's bin before the call.
C14_Witness ==
    /\ ret.op = "update"
    /\ hist.calls = 3
    /\ l.length = 2
    /\ ret.arg = 1
    /\ ret.from = 2
    /\ hist.map[1] = 3
    /\ bins[l.curr].freq = 3
    /\ l.totalFreq = 5

\* C15: right after every update(key, freq) that returned, the cursor is the
\* bin of key `key`, a bin of the chain, whether the search found it or
\* linked it and whether it started at the head or at the cursor.
C15_CursorIsUpdatedBin ==
    (ret.op = "update" /\ ret.panic = NoPanic) =>
        /\ l.curr # Nil
        /\ bins[l.curr].value = ret.arg
        /\ \E n \in 1..Len(Chain) : Chain[n] = l.curr

\* C15 witness: a bin found by a search from the cursor that walked past the
\* cursor's bin (keys 2, 0, 2); the searches before it linked their bins, the
\* first two from the head.
C15_Witness ==
    /\ ret.op = "update"
    /\ hist.calls = 3
    /\ ret.start = "curr"
    /\ ret.from = 0
    /\ ret.seen = {0, 2}
    /\ Len(bins) = 2
    /\ l.curr = 1
    /\ bins[l.curr].value = 2

\* C16: no sequence of calls on a Hstg reaches either panic of update: the
\* cursor is set only while the head is (so the first check never fires),
\* and no call ends in the panic of the first check or in that of the final
\* else.
C16_UpdatePanicsUnreachable ==
    /\ l.curr # Nil => l.head # Nil
    /\ ret.panic \notin {PanicCursorOfEmpty, PanicSentinel}

\* C16 witness: an Update that passed the first check with the cursor set and
\* took the arm for a key below the cursor's.
C16_Witness ==
    /\ ret.op = "Update"
    /\ ret.panic = NoPanic
    /\ ret.start = "head"
    /\ ret.from = 2
    /\ l.length = 2
    /\ l.head # Nil
    /\ l.curr = l.head

\* The bins of the chain.
ChainBins == {Chain[n] : n \in 1..Len(Chain)}

\* C17: across every call the chain only grows: every key of the chain stays
\* a key of the chain, every bin of the chain stays in it with its key and a
\* frequency not below the one it had, and neither length nor totalFreq
\* decreases (a call that leaves the bins and the list as they were does so
\* trivially).
C17_GrowthIsMonotonic ==
    [][(bins' # bins \/ l' # l) =>
         /\ ChainKeySet \subseteq ChainKeySet'
         /\ ChainBins \subseteq ChainBins'
         /\ \A a \in ChainBins :
              /\ bins'[a].value = bins[a].value
              /\ bins'[a].freq >= bins[a].freq
         /\ l'.length >= l.length
         /\ l'.totalFreq >= l.totalFreq]_vars

\* C17 witness: a chain of three bins grown at its head, then in its middle
\* (values 3, 0, 1 in bins of width 1).
C17_Witness ==
    /\ ret.op = "Update"
    /\ hist.calls = 3
    /\ l.length = 3
    /\ l.totalFreq = 3
    /\ ChainKeys = <<0, 1, 3>>
    /\ Chain = <<2, 3, 1>>

\* The calls that read a Hstg or its iterator.
ReadOps ==
    {"Percentile", "Iter", "BinCount", "TotalFreq",
     "Done", "Next", "Freq", "PRank", "IterPercentile"}

\* C18: a read (Percentile of any rank, Iter, BinCount, TotalFreq, and the
\* iterator's Done, Next, Freq, PRank and Percentile), returning or
\* panicking, leaves the codec, every bin (key, frequency, link) and the list
\* (head, cursor, length, totalFreq) as they were, so that an Update of any
\* value right after it does what it would have done right before it.
C18_ReadsLeaveListUnchanged ==
    [][ret'.op \in ReadOps =>
         /\ codec' = codec
         /\ bins' = bins
         /\ l' = l
         /\ \A binValue \in UNION {encode(codec', value) : value \in 0..MaxValue} :
              hBinList_update(bins', l', binValue, 1)
                = hBinList_update(bins, l, binValue, 1)]_vars

\* C18 witness: Percentile(100), the tail scan, read on a list of two bins
\* whose cursor is not on the first.
C18_Witness ==
    /\ ret.op = "Percentile"
    /\ ~ret.err
    /\ ret.rank = Rank(1000)
    /\ l.length = 2
    /\ l.curr # l.head
    /\ l.totalFreq = 3

\* The <<key, frequency>> of the bins linked from head, in chain order.
Pairs(bs, head) ==
    LET c == ChainFrom(bs, head, Len(bs) + 1)
    IN  [n \in 1..Len(c) |-> <<bs[c[n]].value, bs[c[n]].freq>>]

\* The permutations of 1..n.
Perms(n) == {p \in [1..n -> 1..n] : \A a, b \in 1..n : p[a] = p[b] => a = b}

\* The list built from an empty one by the calls of hist.seq in the order p.
Permuted(p) == UpdateAll(EmptyList, [n \in 1..Len(hist.seq) |-> hist.seq[p[n]]])

\* C19: the list reached by a sequence of update calls on an empty list is
\* the one update computes call by call, and the same calls in any other
\* order end with the same <<key, frequency>> pairs in the same chain order,
\* the same length and the same totalFreq.
C19_UpdateOrderIrrelevant ==
    /\ UpdateAll(EmptyList, hist.seq) = [bins |-> bins, l |-> l]
    /\ \A p \in Perms(Len(hist.seq)) :
         LET t == Permuted(p)
         IN  /\ Pairs(t.bins, t.l.head) = Pairs(bins, l.head)
             /\ t.l.length = l.length
             /\ t.l.totalFreq = l.totalFreq

\* C19 witness: three calls on two keys, one key twice with different freq,
\* of which another order leaves the cursor on the bin of another key, and
\* another allocates the bins in another order.
C19_Witness ==
    /\ hist.seq = <<<<1, 1>>, <<0, 2>>, <<1, 2>>>>
    /\ Pairs(bins, l.head) = <<<<0, 2>>, <<1, 3>>>>
    /\ \E p \in Perms(3) :
         LET t == Permuted(p)
         IN  t.l.curr # Nil /\ t.bins[t.l.curr].value # bins[l.curr].value
    /\ \E p \in Perms(3) : Permuted(p).bins # bins

\* The ranks of Ranks that are in [0, 100], and what Percentile returns for
\* each on the histogram as it is.
ValidRanks == {r \in Ranks : Valid(r)}

Percentiles == [r \in ValidRanks |-> Hstg_Percentile(bins, l, codec, r)]

\* The decoded keys of the bins of the chain.
DecodedKeys == {decode(codec, k) : k \in ChainKeySet}

\* C20 as stated: on a histogram of New, whatever it holds, Percentile is
\* non-decreasing in the rank over [0, 100] and returns the decoded key of a
\* bin of the chain.
C20_MonotoneOverChainKeys ==
    codec.kind = "default" =>
        LET p == Percentiles
            keys == DecodedKeys
        IN  \A r1, r2 \in ValidRanks :
                r1.tenths <= r2.tenths =>
                    /\ ~p[r1].err
                    /\ p[r1].panic = NoPanic
                    /\ p[r1].value <= p[r2].value
                    /\ p[r1].value \in keys

\* C20: on a histogram of New, Percentile is non-decreasing in the rank over
\* [0, 100], endpoints included; on a histogram that holds a bin every result
\* is the decoded key of a bin of the chain, and on one that holds none every
\* result is 0.
C20_MonotoneOverChainKeysIfAny ==
    codec.kind = "default" =>
        LET p == Percentiles
            keys == DecodedKeys
        IN  \A r1, r2 \in ValidRanks :
                r1.tenths <= r2.tenths =>
                    /\ ~p[r1].err
                    /\ p[r1].panic = NoPanic
                    /\ p[r1].value <= p[r2].value
                    /\ l.length > 0 => p[r1].value \in keys
                    /\ l.length = 0 => p[r1].value = 0 /\ keys = {}

\* C20 witness: Percentile(50) on three bins, where ranks 25, 50 and 100 give
\* three different results and the cursor is not on the last bin.
C20_Witness ==
    /\ codec = DefaultCodec(1)
    /\ ret.op = "Percentile"
    /\ ret.rank = Rank(500)
    /\ l.length = 3
    /\ bins[l.curr].next # Nil
    /\ ret.value = Percentiles[Rank(500)].value
    /\ Percentiles[Rank(250)].value < Percentiles[Rank(500)].value
    /\ Percentiles[Rank(500)].value < Percentiles[Rank(1000)].value

=============================================================================
